---- MODULE Spec2Model ----
(***************************************************************************)
(* Model of directory-tree-excel.js: the path filter (normalizePath,       *)
(* getExclusionList, shouldExclude, shouldIncludeFile, hasIncludedFiles)   *)
(* and the tree walker (processDirectory, generateExcel).                  *)
(*                                                                         *)
(* A JavaScript string is a sequence of one-character strings.  A          *)
(* directory on disk is a record [name, isDir, items, readErr, statErr];   *)
(* items is the listing in readdirSync order, readErr says readdirSync     *)
(* throws for the directory and statErr that statSync throws for the item. *)
(***************************************************************************)
EXTENDS Integers, Sequences, FiniteSets, TLC

VARIABLES
    sep,                \* path.sep of the platform: "/" or "\\"
    includedExtensions, \* line 41: [isNull, set], a Set of strings unless null
    disk,               \* the root directory: [readErr, items]
    excludeFile,        \* TO_EXCLUDE_TREE_TEMP.txt: [exists, readable, content]
    excludeList,        \* the Set getExclusionList returned
    rows,               \* worksheet rows 2.., in the order they were written
    rowIndex,           \* line 73
    stack,              \* processDirectory activations, innermost last
    log,                \* console.error / console.log lines, in order
    pc,                 \* position of generateExcel
    op,                 \* function applied by the function-level specification
    args,               \* its arguments
    ret                 \* its result

vars == <<sep, includedExtensions, disk, excludeFile, excludeList, rows,
          rowIndex, stack, log, pc, op, args, ret>>

NULL == "null"

----------------------------------------------------------------------------
(* Strings *)

RECURSIVE SplitOn(_, _)
\* String.prototype.split on a set of one-character separators: the segments
\* between separators, empty ones included ("a/" gives <<"a", "">>).
SplitOn(s, seps) ==
    IF \A i \in 1..Len(s) : s[i] \notin seps
    THEN <<s>>
    ELSE LET i == CHOOSE k \in 1..Len(s) :
                      s[k] \in seps /\ \A j \in 1..(k - 1) : s[j] \notin seps
         IN  <<SubSeq(s, 1, i - 1)>> \o SplitOn(SubSeq(s, i + 1, Len(s)), seps)

RECURSIVE JoinWith(_, _)
\* Array.prototype.join with a one-character separator.
JoinWith(segs, c) ==
    IF segs = <<>> THEN <<>>
    ELSE IF Len(segs) = 1 THEN segs[1]
    ELSE segs[1] \o <<c>> \o JoinWith(Tail(segs), c)

\* Array.prototype.filter(Boolean) on strings: the empty string is falsy.
FilterBoolean(segs) == SelectSeq(segs, LAMBDA x : x # <<>>)

startsWith(s, p) == Len(s) >= Len(p) /\ SubSeq(s, 1, Len(p)) = p

endsWith(s, c) == s # <<>> /\ s[Len(s)] = c

WhiteSpace == {" ", "\t", "\r"}

RECURSIVE trim(_)
trim(s) ==
    IF s = <<>> THEN s
    ELSE IF s[1] \in WhiteSpace THEN trim(Tail(s))
    ELSE IF s[Len(s)] \in WhiteSpace THEN trim(SubSeq(s, 1, Len(s) - 1))
    ELSE s

toLowerCaseChar(c) ==
    CASE c = "A" -> "a"
      [] c = "J" -> "j"
      [] c = "S" -> "s"
      [] c = "T" -> "t"
      [] OTHER   -> c

toLowerCase(s) == [i \in 1..Len(s) |-> toLowerCaseChar(s[i])]

\* path.extname of a name without separators (node's lib/path.js): the text
\* from the last dot on, and the empty string when there is no dot, when no
\* character precedes the last dot, or when the name is "..".
extname(name) ==
    LET dots     == {i \in 1..Len(name) : name[i] = "."}
        startDot == IF dots = {} THEN 0
                    ELSE CHOOSE i \in dots : \A j \in dots : j <= i
        end      == Len(name)
        \* preDotState: 0 when nothing precedes the last dot; otherwise the
        \* scan runs right to left and each character before the dot
        \* overwrites it (a dot with 1, anything else with -1), so the first
        \* character of the name decides
        preDotState == IF startDot <= 1 THEN 0
                       ELSE IF name[1] = "." THEN 1 ELSE -1
    IN  IF startDot = 0 \/ end = 0 \/ preDotState = 0
           \/ (preDotState = 1 /\ startDot = end /\ startDot = 2)
        THEN <<>>
        ELSE SubSeq(name, startDot, end)

----------------------------------------------------------------------------
(* Path filter *)

Separators == {"/", "\\"}

\* normalizePath splitting on "/" alone
normalizePath_SlashOnly(inputPath) ==
    JoinWith(FilterBoolean(SplitOn(inputPath, {"/"})), sep)

\* line 80
normalizePath(inputPath) ==
    JoinWith(FilterBoolean(SplitOn(inputPath, Separators)), sep)

\* line 90: the fixed name of the exclusion file
ExcludeFileName ==
    <<"T","O","_","E","X","C","L","U","D","E","_","T","R","E","E","_",
      "T","E","M","P",".","t","x","t">>

\* getExclusionList with the Set built empty and the file's name never added
getExclusionList_NoDefault(f) ==
    LET lines   == SplitOn(f.content, {"\n"})
        trimmed == {trim(lines[i]) : i \in 1..Len(lines)}
    IN  IF f.exists /\ f.readable
        THEN {normalizePath(t) : t \in trimmed \ {<<>>}}
        ELSE {}

\* lines 89-108; f is the file at path.join(basePath, ExcludeFileName).
\* readFileSync throws for an unreadable file before any line is added, and
\* the catch leaves the Set as constructed.
getExclusionList(f) ==
    LET lines   == SplitOn(f.content, {"\n"})
        trimmed == {trim(lines[i]) : i \in 1..Len(lines)}
    IN  IF f.exists /\ f.readable
        THEN {ExcludeFileName} \cup {normalizePath(t) : t \in trimmed \ {<<>>}}
        ELSE {ExcludeFileName}

\* line 104: the catch block of getExclusionList runs
getExclusionListThrows(f) == f.exists /\ ~f.readable

\* shouldExclude comparing the item path as given, not normalized
shouldExclude_Raw(itemPath, list) ==
    \/ itemPath \in list
    \/ \E excludePath \in list :
          /\ endsWith(excludePath, sep)
          /\ LET excludeDir == SubSeq(excludePath, 1, Len(excludePath) - 1)
             IN  \/ itemPath = excludeDir
                 \/ startsWith(itemPath, excludeDir \o <<sep>>)

\* lines 116-134
shouldExclude(itemPath, list) ==
    LET normalizedItemPath == normalizePath(itemPath)
    IN  \/ normalizedItemPath \in list
        \/ \E excludePath \in list :
              /\ endsWith(excludePath, sep)
              /\ LET excludeDir == SubSeq(excludePath, 1, Len(excludePath) - 1)
                 IN  \/ normalizedItemPath = excludeDir
                     \/ startsWith(normalizedItemPath, excludeDir \o <<sep>>)

\* lines 41-43: argv['include-only-extensions'] is the option's text; the
\* empty text (the default) is falsy.
ParseExtensions(text) ==
    IF text = <<>> THEN [isNull |-> TRUE, set |-> {}]
    ELSE LET parts == SplitOn(text, {","})
         IN  [isNull |-> FALSE,
              set    |-> {trim(toLowerCase(parts[i])) : i \in 1..Len(parts)}]

\* shouldIncludeFile without toLowerCase
shouldIncludeFile_CaseSensitive(filePath) ==
    IF includedExtensions.isNull THEN TRUE
    ELSE LET e   == extname(filePath)
             ext == SubSeq(e, 2, Len(e))
         IN  ext \in includedExtensions.set

\* lines 141-148
shouldIncludeFile(filePath) ==
    IF includedExtensions.isNull THEN TRUE
    ELSE LET e   == toLowerCase(extname(filePath))
             ext == SubSeq(e, 2, Len(e))
         IN  ext \in includedExtensions.set

RECURSIVE checkDir(_)
RECURSIVE checkDirLoop(_, _)
\* lines 162-181: [threw, value].  hasMatchingFiles is set only on the way
\* to a `return true`, so the final `return hasMatchingFiles` returns false.
checkDir(d) ==
    IF d.readErr THEN [threw |-> TRUE, value |-> FALSE]
    ELSE checkDirLoop(d.items, 1)

\* lines 165-178, from the k-th item on
checkDirLoop(items, k) ==
    IF k > Len(items) THEN [threw |-> FALSE, value |-> FALSE]
    ELSE LET item == items[k]
         IN  IF item.statErr THEN [threw |-> TRUE, value |-> FALSE]
             ELSE IF item.isDir
             THEN LET r == checkDir(item)
                  IN  IF r.threw \/ r.value THEN r
                      ELSE checkDirLoop(items, k + 1)
             ELSE IF shouldIncludeFile(item.name)
             THEN [threw |-> FALSE, value |-> TRUE]
             ELSE checkDirLoop(items, k + 1)

\* hasIncludedFiles without the early return for a null includedExtensions
hasIncludedFiles_NoNullCheck(d) == checkDir(d)

\* hasIncludedFiles true of every directory that is not empty
hasIncludedFiles_AnyItem(d) ==
    IF includedExtensions.isNull THEN [threw |-> FALSE, value |-> TRUE]
    ELSE [threw |-> d.readErr, value |-> d.items # <<>>]

\* hasIncludedFiles looking at the directory's own files only
hasIncludedFiles_Shallow(d) ==
    IF includedExtensions.isNull THEN [threw |-> FALSE, value |-> TRUE]
    ELSE IF d.readErr THEN [threw |-> TRUE, value |-> FALSE]
    ELSE [threw |-> \E i \in 1..Len(d.items) : d.items[i].statErr,
          value |-> \E i \in 1..Len(d.items) :
                       ~d.items[i].isDir /\ shouldIncludeFile(d.items[i].name)]

\* lines 155-184
hasIncludedFiles(d) ==
    IF includedExtensions.isNull THEN [threw |-> FALSE, value |-> TRUE]
    ELSE checkDir(d)

\* lines 192-195, with fullPath = path.join(basePath, segs[1], ..): path.relative
\* gives the segments joined by path.sep
getRelativePath(segs) ==
    LET relativePath == JoinWith(segs, sep)
    IN  JoinWith(SplitOn(relativePath, {sep}), "/")

----------------------------------------------------------------------------
(* The disks, option texts and exclusion files the walker is run on *)

MaxNodes == 3      \* items under the root, the exclusion file not counted
MaxErrors == 1     \* items for which readdirSync or statSync throws

aTs == <<"a", ".", "t", "s">>
bJs == <<"b", ".", "j", "s">>
cMd == <<"c", ".", "m", "d">>
build == <<"b", "u", "i", "l", "d">>
builder == <<"b", "u", "i", "l", "d", "e", "r">>
sub == <<"s", "u", "b">>

FileNames == {aTs, bJs}
DirNames == {build, builder}

File(nm, se) ==
    [name |-> nm, isDir |-> FALSE, items |-> <<>>, readErr |-> FALSE, statErr |-> se]

Dir(nm, se, re, its) ==
    [name |-> nm, isDir |-> TRUE, items |-> its, readErr |-> re, statErr |-> se]

RECURSIVE Size(_)
\* number of items in a listing, nested ones included
Size(items) ==
    IF items = <<>> THEN 0 ELSE 1 + Size(items[1].items) + Size(Tail(items))

RECURSIVE Errors(_)
Errors(items) ==
    IF items = <<>> THEN 0
    ELSE (IF items[1].statErr THEN 1 ELSE 0) + (IF items[1].readErr THEN 1 ELSE 0)
         + Errors(items[1].items) + Errors(Tail(items))

Flags(e) == IF e > 0 THEN BOOLEAN ELSE {FALSE}

RECURSIVE Listings(_, _)
\* every directory listing of at most n items with at most e failing ones:
\* names within one directory are distinct; nothing is known of an item
\* that cannot be stat'd or of the content of a directory that cannot be read
Listings(n, e) ==
    IF n = 0 THEN {<<>>}
    ELSE LET files == {File(nm, se) : nm \in FileNames, se \in Flags(e)}
             bad   == {Dir(nm, FALSE, TRUE, <<>>) : nm \in IF e > 0 THEN DirNames ELSE {}}
             dirs  == UNION {{Dir(nm, FALSE, FALSE, its) : nm \in DirNames} :
                              its \in Listings(n - 1, e)}
             first == files \cup bad \cup dirs
         IN  {<<>>} \cup
             UNION {{<<f>> \o rest :
                       rest \in {r \in Listings(n - 1 - Size(f.items),
                                                e - Errors(<<f>>)) :
                                    \A i \in 1..Len(r) : r[i].name # f.name}} :
                    f \in first}

\* root/{a.ts, b.js, sub/{c.md}}
ExampleTree ==
    <<File(aTs, FALSE), File(bJs, FALSE),
      Dir(sub, FALSE, FALSE, <<File(cMd, FALSE)>>)>>

\* root/{build/{a.ts}, builder/{a.ts}}
BuildTree ==
    <<Dir(build, FALSE, FALSE, <<File(aTs, FALSE)>>),
      Dir(builder, FALSE, FALSE, <<File(aTs, FALSE)>>)>>

\* --include-only-extensions: not given, or "ts"
OptionTexts == {<<>>, <<"t", "s">>}

ExcludeFiles ==
    { [exists |-> FALSE, readable |-> FALSE, content |-> <<>>],
      [exists |-> TRUE, readable |-> FALSE, content |-> <<>>],
      \* "build/"
      [exists |-> TRUE, readable |-> TRUE, content |-> build \o <<"/">>],
      \* "b.js" and " build\a.ts ", with a blank line between
      [exists |-> TRUE, readable |-> TRUE,
       content |-> bJs \o <<"\n", "\n", " ">> \o build \o <<"\\">> \o aTs \o <<" ", "\r">>] }

----------------------------------------------------------------------------
(* Tree walker *)

\* readdirSync followed by a sort into reverse order
readdirSync_Reversed(d) == [i \in 1..Len(d.items) |-> d.items[Len(d.items) + 1 - i]]

\* line 206: the names in the directory, in the order the platform gives them
readdirSync(d) == d.items

Frame(d, segs, level) == [dir |-> d, dirPath |-> segs, level |-> level, i |-> 0]

Top == stack[Len(stack)]

Pop == SubSeq(stack, 1, Len(stack) - 1)

Repeat(s, n) == [k \in 1..(n * Len(s)) |-> s[((k - 1) % Len(s)) + 1]]

\* lines 233-238
Row(level, isDirectory, item, relativePath) ==
    [level  |-> level,
     type   |-> IF isDirectory THEN "Directory" ELSE "File",
     name   |-> Repeat(<<" ", " ">>, level) \o item,
     path   |-> relativePath \o (IF isDirectory THEN <<"/">> ELSE <<>>),
     status |-> "pending"]

\* line 254
ProcessError(segs) == [msg |-> "Error processing directory", path |-> segs]

WalkerInit ==
    /\ sep \in Separators
    /\ \E text \in OptionTexts : includedExtensions = ParseExtensions(text)
    /\ excludeFile \in ExcludeFiles
    /\ \E its \in Listings(MaxNodes, MaxErrors) \cup {ExampleTree, BuildTree},
          rootErr \in BOOLEAN :
          \* a root that cannot be listed: nothing beneath it is seen.  An
          \* exclusion file that exists is an item of the root, listed first
          /\ rootErr => its = <<>> /\ ~excludeFile.exists
          /\ disk = [name |-> <<>>, isDir |-> TRUE, readErr |-> rootErr, statErr |-> FALSE,
                     items |-> (IF excludeFile.exists
                                THEN <<File(ExcludeFileName, FALSE)>> ELSE <<>>) \o its]
    /\ excludeList = {}
    /\ rows = <<>>
    /\ rowIndex = 2
    /\ stack = <<>>
    /\ log = <<>>
    /\ pc = "start"
    /\ op = NULL /\ args = NULL /\ ret = NULL

\* lines 264-272: generateExcel up to the call of processDirectory
Start ==
    /\ pc = "start"
    /\ excludeList' = getExclusionList(excludeFile)
    /\ log' = IF getExclusionListThrows(excludeFile)
              THEN <<[msg |-> "Error reading exclusion file", path |-> <<>>]>>
              ELSE <<>>
    /\ stack' = <<Frame(disk, <<>>, 0)>>
    /\ pc' = "process"
    /\ UNCHANGED <<sep, includedExtensions, disk, excludeFile, rows, rowIndex,
                   op, args, ret>>

\* lines 205-211: readdirSync and the hasIncludedFiles check of the directory
\* entered; a throw of either lands in the catch of line 253
EnterDirectory ==
    /\ pc = "process" /\ stack # <<>> /\ Top.i = 0
    /\ LET f == Top
           r == hasIncludedFiles(f.dir)
       IN  IF f.dir.readErr \/ r.threw
           THEN /\ log' = Append(log, ProcessError(f.dirPath))
                /\ stack' = Pop
           ELSE IF ~r.value
           THEN /\ stack' = Pop
                /\ log' = log
           ELSE /\ stack' = [stack EXCEPT ![Len(stack)].i = 1]
                /\ log' = log
    /\ UNCHANGED <<sep, includedExtensions, disk, excludeFile, excludeList, rows,
                   rowIndex, pc, op, args, ret>>

\* lines 213-252: one iteration of the loop over items
ProcessItem ==
    /\ pc = "process" /\ stack # <<>> /\ Top.i >= 1 /\ Top.i <= Len(readdirSync(Top.dir))
    /\ LET f            == Top
           item         == readdirSync(f.dir)[f.i]
           fullPath     == Append(f.dirPath, item.name)
           relativePath == getRelativePath(fullPath)
           next         == [stack EXCEPT ![Len(stack)].i = f.i + 1]
           inc          == hasIncludedFiles(item)
       IN  IF shouldExclude(relativePath, excludeList)
           THEN /\ stack' = next
                /\ UNCHANGED <<rows, rowIndex, log>>
           ELSE IF item.statErr
           THEN /\ log' = Append(log, ProcessError(f.dirPath))
                /\ stack' = Pop
                /\ UNCHANGED <<rows, rowIndex>>
           ELSE IF ~item.isDir /\ ~shouldIncludeFile(item.name)
           THEN /\ stack' = next
                /\ UNCHANGED <<rows, rowIndex, log>>
           ELSE IF item.isDir /\ inc.threw
           THEN /\ log' = Append(log, ProcessError(f.dirPath))
                /\ stack' = Pop
                /\ UNCHANGED <<rows, rowIndex>>
           ELSE IF item.isDir /\ ~inc.value
           THEN /\ stack' = next
                /\ UNCHANGED <<rows, rowIndex, log>>
           ELSE /\ rows' = Append(rows, Row(f.level, item.isDir, item.name, relativePath))
                /\ rowIndex' = rowIndex + 1
                /\ stack' = IF item.isDir
                            THEN Append(next, Frame(item, fullPath, f.level + 1))
                            ELSE next
                /\ log' = log
    /\ UNCHANGED <<sep, includedExtensions, disk, excludeFile, excludeList, pc,
                   op, args, ret>>

\* line 252: the loop is over and processDirectory returns
ReturnFromDirectory ==
    /\ pc = "process" /\ stack # <<>> /\ Top.i > Len(readdirSync(Top.dir))
    /\ stack' = Pop
    /\ UNCHANGED <<sep, includedExtensions, disk, excludeFile, excludeList, rows,
                   rowIndex, log, pc, op, args, ret>>

\* lines 274-281: processDirectory has returned; the workbook is written
WriteFile ==
    /\ pc = "process" /\ stack = <<>>
    /\ pc' = "done"
    /\ log' = Append(log, [msg |-> "Excel file generated successfully", path |-> <<>>])
    /\ UNCHANGED <<sep, includedExtensions, disk, excludeFile, excludeList, rows,
                   rowIndex, stack, op, args, ret>>

\* lines 280-284: writeFile rejects and the catch of generateExcel logs it
WriteFileFails ==
    /\ pc = "process" /\ stack = <<>>
    /\ pc' = "failed"
    /\ log' = Append(log, [msg |-> "Error generating Excel file", path |-> <<>>])
    /\ UNCHANGED <<sep, includedExtensions, disk, excludeFile, excludeList, rows,
                   rowIndex, stack, op, args, ret>>

Init == WalkerInit

Next ==
    \/ Start
    \/ EnterDirectory
    \/ ProcessItem
    \/ ReturnFromDirectory
    \/ WriteFile
    \/ WriteFileFails

Spec == Init /\ [][Next]_vars

----------------------------------------------------------------------------
(* The functions of the path filter, applied to every short input *)

MaxPathLen == 4     \* length of the paths given to normalizePath
MaxLineLen == 3     \* length of the exclusion-file line
MaxItemLen == 4     \* length of the item path given to shouldExclude
MaxTextLen == 2     \* length of the --include-only-extensions text
MaxNameLen == 3     \* length of the file name given to shouldIncludeFile

Strs(chars, n) == UNION {[1..k -> chars] : k \in 0..n}

PathChars == {"a", "b", "/", "\\"}
LineChars == {"a", "/", "\\"}
TextChars == {"a", "A", ",", ".", " "}
NameChars == {"a", "A", "."}

\* x with its i-th character replaced by c
ReplaceAt(x, i, c) == [x EXCEPT ![i] = c]

\* x with c put in before its i-th character (i = Len(x) + 1: at the end)
InsertAt(x, i, c) == SubSeq(x, 1, i - 1) \o <<c>> \o SubSeq(x, i, Len(x))

\* The strings one step from x: one separator replaced by the other one, or
\* one empty segment added (a separator at the start, at the end or next to
\* a separator).
Variants(x) ==
    {ReplaceAt(x, i, c) : i \in {j \in 1..Len(x) : x[j] \in Separators}, c \in Separators}
    \cup {InsertAt(x, i, c) :
            i \in {j \in 1..(Len(x) + 1) :
                     \/ j = 1
                     \/ j = Len(x) + 1
                     \/ x[j] \in Separators
                     \/ x[j - 1] \in Separators},
            c \in Separators}

\* readdirSync gives every name but "." and ".."
IsFileName(n) == n # <<>> /\ n # <<".">> /\ n # <<".", ".">>

FnInit ==
    /\ sep \in Separators
    /\ pc = "call"
    /\ ret = NULL
    /\ \/ /\ op = "normalizePath"
          /\ \E x \in Strs(PathChars, MaxPathLen) : \E y \in Variants(x) :
                args = [x |-> x, y |-> y]
          /\ includedExtensions = ParseExtensions(<<>>)
       \/ /\ op = "shouldExclude"
          /\ \E line \in Strs(LineChars, MaxLineLen), item \in Strs(LineChars, MaxItemLen) :
                args = [line |-> line, itemPath |-> item]
          /\ includedExtensions = ParseExtensions(<<>>)
       \/ /\ op = "shouldIncludeFile"
          /\ \E text \in Strs(TextChars, MaxTextLen) :
                /\ includedExtensions = ParseExtensions(text)
                /\ \E n \in {m \in Strs(NameChars, MaxNameLen) : IsFileName(m)} :
                      args = [text |-> text, fileName |-> n]
    /\ disk = [name |-> <<>>, isDir |-> TRUE, readErr |-> FALSE, statErr |-> FALSE,
               items |-> <<>>]
    /\ excludeFile = [exists |-> FALSE, readable |-> FALSE, content |-> <<>>]
    /\ excludeList = {}
    /\ rows = <<>>
    /\ rowIndex = 2
    /\ stack = <<>>
    /\ log = <<>>

\* normalizePath applied to x, to its result and to y
CallNormalizePath ==
    /\ pc = "call" /\ op = "normalizePath"
    /\ ret' = [x  |-> normalizePath(args.x),
               xx |-> normalizePath(normalizePath(args.x)),
               y  |-> normalizePath(args.y)]
    /\ pc' = "return"
    /\ UNCHANGED <<sep, includedExtensions, disk, excludeFile, excludeList, rows,
                   rowIndex, stack, log, op, args>>

\* shouldExclude applied to itemPath and the Set getExclusionList builds from
\* an exclusion file holding the one line
CallShouldExclude ==
    /\ pc = "call" /\ op = "shouldExclude"
    /\ LET list == getExclusionList([exists |-> TRUE, readable |-> TRUE,
                                     content |-> args.line])
       IN  ret' = [list |-> list, excluded |-> shouldExclude(args.itemPath, list)]
    /\ pc' = "return"
    /\ UNCHANGED <<sep, includedExtensions, disk, excludeFile, excludeList, rows,
                   rowIndex, stack, log, op, args>>

CallShouldIncludeFile ==
    /\ pc = "call" /\ op = "shouldIncludeFile"
    /\ ret' = shouldIncludeFile(args.fileName)
    /\ pc' = "return"
    /\ UNCHANGED <<sep, includedExtensions, disk, excludeFile, excludeList, rows,
                   rowIndex, stack, log, op, args>>

FnNext ==
    \/ CallNormalizePath
    \/ CallShouldExclude
    \/ CallShouldIncludeFile

FnSpec == FnInit /\ [][FnNext]_vars

----------------------------------------------------------------------------
(* Properties of the path-filter functions (FnSpec) *)

Returned(f) == pc = "return" /\ op = f

\* C9: normalizePath is idempotent, and two strings that differ in the kind
\* of one separator or in one empty segment (a leading, trailing or doubled
\* separator) normalize to the same string.  args.y is one such step from
\* args.x, so strings any number of steps apart agree as well.
C9_NormalizeIdempotentAgnostic ==
    Returned("normalizePath") => ret.xx = ret.x /\ ret.y = ret.x

\* normalizePath has joined two segments with path.sep where the input used
\* the other separator, and the variant and the second pass were compared
C9_Witness ==
    /\ Returned("normalizePath")
    /\ sep = "\\"
    /\ args.x = <<"a", "/", "b">>
    /\ args.y = <<"a", "/", "/", "b">>
    /\ ret.x = <<"a", "\\", "b">>

\* the line without its last character
Stripped(line) == SubSeq(line, 1, Len(line) - 1)

\* C6: for an exclusion-file line e that ends in a separator and the Set S
\* getExclusionList builds from the file, shouldExclude(e_stripped + "/x", S)
\* is true for every non-empty x and shouldExclude(e_stripped + "y", S) is
\* false for every non-empty y that does not start with a separator.
C6_DirectoryLineCoversDescendants ==
    (Returned("shouldExclude") /\ Len(args.line) > 1
                               /\ args.line[Len(args.line)] \in Separators
                               /\ args.line[1] \notin Separators
                               /\ args.line[Len(args.line) - 1] \notin Separators)
    => LET e_stripped == Stripped(args.line)
           rest       == SubSeq(args.itemPath, Len(e_stripped) + 1, Len(args.itemPath))
       IN  (startsWith(args.itemPath, e_stripped) /\ rest # <<>>)
           => /\ (rest[1] = "/" /\ \E i \in 2..Len(rest) : rest[i] \notin Separators)
                 => ret.excluded
              /\ rest[1] \notin Separators => ~ret.excluded

\* the last dot of a name, 0 if it has none
LastDot(n) ==
    IF \A i \in 1..Len(n) : n[i] # "." THEN 0
    ELSE CHOOSE i \in 1..Len(n) : n[i] = "." /\ \A j \in (i + 1)..Len(n) : n[j] # "."

\* the text after the last dot, empty if there is no dot
AfterLastDot(n) == IF LastDot(n) = 0 THEN <<>> ELSE SubSeq(n, LastDot(n) + 1, Len(n))

\* C7 as stated: shouldIncludeFile is true when no filter is configured, and
\* otherwise exactly when the lower-cased text after the last dot of the
\* name is in the filter, for every name.
C7_AfterLastDot ==
    Returned("shouldIncludeFile")
    => (ret <=> (\/ includedExtensions.isNull
                 \/ toLowerCase(AfterLastDot(args.fileName)) \in includedExtensions.set))

\* C7 as amended: the extension is the text after the last dot, but empty
\* when the name's last dot is its first character (a name such as ".a" has
\* no extension).
C7_ExtensionMembership ==
    Returned("shouldIncludeFile")
    => (ret <=> (\/ includedExtensions.isNull
                 \/ (IF LastDot(args.fileName) <= 1 THEN <<>>
                     ELSE toLowerCase(AfterLastDot(args.fileName)))
                    \in includedExtensions.set))

\* an upper-case extension after several dots passed a lower-cased filter
C7_Witness ==
    /\ Returned("shouldIncludeFile")
    /\ args.fileName = <<".", ".", "A">>
    /\ includedExtensions.set = {<<"a">>}
    /\ ret = TRUE

----------------------------------------------------------------------------
(* Properties of the walk (Spec) *)

\* processDirectory has returned to generateExcel
Walked == pc # "start" /\ stack = <<>>

IsPrefix(q, p) == Len(q) <= Len(p) /\ SubSeq(p, 1, Len(q)) = q

\* the segments of a row's path and of an entry of the exclusion Set
RowSegs(row) == FilterBoolean(SplitOn(row.path, {"/"}))
EntrySegs(e) == FilterBoolean(SplitOn(e, Separators))

RECURSIVE AllItems(_, _)
\* every item of a listing, nested ones included, with its segments from the root
AllItems(items, prefix) ==
    UNION {{[segs |-> Append(prefix, items[i].name), node |-> items[i]]}
           \cup AllItems(items[i].items, Append(prefix, items[i].name)) :
           i \in 1..Len(items)}

OnDisk == AllItems(disk.items, <<>>)

NoError == ~disk.readErr /\ Errors(disk.items) = 0

\* the row an item is emitted as, by path and kind
Emitted(it) ==
    \E k \in 1..Len(rows) :
       /\ rows[k].path = JoinWith(it.segs, "/") \o (IF it.node.isDir THEN <<"/">> ELSE <<>>)
       /\ rows[k].type = (IF it.node.isDir THEN "Directory" ELSE "File")

\* the item's own path or the path of a directory above it is an entry of the
\* exclusion Set
ExcludedOrBeneath(segs) ==
    \E e \in excludeList : EntrySegs(e) # <<>> /\ IsPrefix(EntrySegs(e), segs)

BuildLine == [exists |-> TRUE, readable |-> TRUE, content |-> build \o <<"/">>]

\* C1: no row is written for a path that is an entry of the exclusion Set
\* or lies beneath one; and with the exclusion line "build/" and no failing
\* item, every file of the directory builder that passes the extension
\* filter is written.
C1_ExclusionAbsolute ==
    /\ \A k \in 1..Len(rows) : ~ExcludedOrBeneath(RowSegs(rows[k]))
    /\ (Walked /\ NoError /\ excludeFile = BuildLine)
       => \A it \in OnDisk :
             (Len(it.segs) = 2 /\ it.segs[1] = builder /\ ~it.node.isDir
                               /\ shouldIncludeFile(it.node.name))
             => Emitted(it)

\* under the line "build/", build/a.ts passes the filter and is left out
\* with its directory, and builder/a.ts is written
C1_Witness ==
    /\ Walked
    /\ excludeFile = BuildLine
    /\ ~includedExtensions.isNull
    /\ disk.items = <<File(ExcludeFileName, FALSE)>> \o BuildTree
    /\ \E k \in 1..Len(rows) : rows[k].path = builder \o <<"/">> \o aTs
    /\ \A k \in 1..Len(rows) : RowSegs(rows[k])[1] # build

RECURSIVE SubtreeHasIncludedFile(_)
\* some file in or beneath the listing passes the extension filter
SubtreeHasIncludedFile(items) ==
    \E i \in 1..Len(items) :
       IF items[i].isDir THEN SubtreeHasIncludedFile(items[i].items)
       ELSE shouldIncludeFile(items[i].name)

\* C2: with an extension filter and no failing item, an item that is neither
\* excluded nor beneath an excluded directory is written exactly when, being
\* a file, it passes the filter or, being a directory, some file beneath it
\* does; at every depth.
C2_EmittedIffIncluded ==
    (Walked /\ NoError /\ ~includedExtensions.isNull)
    => \A it \in OnDisk :
          ~ExcludedOrBeneath(it.segs)
          => (Emitted(it) <=> IF it.node.isDir
                              THEN SubtreeHasIncludedFile(it.node.items)
                              ELSE shouldIncludeFile(it.node.name))

\* below the root: a directory is pruned next to a file that is written
C2_Witness ==
    /\ Walked /\ NoError /\ ~includedExtensions.isNull
    /\ \E it \in OnDisk :
          /\ Len(it.segs) = 2 /\ it.node.isDir /\ ~ExcludedOrBeneath(it.segs)
          /\ ~Emitted(it)
          /\ \E f \in OnDisk :
                Len(f.segs) = 2 /\ f.segs[1] = it.segs[1] /\ ~f.node.isDir /\ Emitted(f)

RECURSIVE NodeAt(_, _)
\* the directory at the given segments beneath d
NodeAt(d, segs) ==
    IF segs = <<>> THEN d
    ELSE NodeAt(CHOOSE n \in {d.items[i] : i \in 1..Len(d.items)} : n.name = segs[1],
                Tail(segs))

Parent(segs) == SubSeq(segs, 1, Len(segs) - 1)

\* position of a name in the listing of a directory
ListedAt(d, nm) == CHOOSE i \in 1..Len(d.items) : d.items[i].name = nm

\* C3: rows are in pre-order.  A row's level is its depth beneath the root
\* (0 for the root's items); the row of its directory comes before it, with
\* only rows of that directory's subtree between; and rows of one directory
\* come in the order of its listing.
C3_PreOrder ==
    \A k \in 1..Len(rows) :
       LET segs == RowSegs(rows[k])
       IN  /\ rows[k].level = Len(segs) - 1
           /\ Len(segs) > 1
              => \E j \in 1..(k - 1) :
                    /\ RowSegs(rows[j]) = Parent(segs)
                    /\ rows[j].type = "Directory"
                    /\ \A m \in (j + 1)..k :
                          /\ IsPrefix(Parent(segs), RowSegs(rows[m]))
                          /\ RowSegs(rows[m]) # Parent(segs)
           /\ \A j \in 1..(k - 1) :
                 LET other == RowSegs(rows[j])
                 IN  (Len(other) = Len(segs) /\ Parent(other) = Parent(segs))
                     => ListedAt(NodeAt(disk, Parent(segs)), other[Len(other)])
                        < ListedAt(NodeAt(disk, Parent(segs)), segs[Len(segs)])

\* a directory's row, then the row of an item in it, then the row of the
\* directory's next sibling
C3_Witness ==
    /\ Walked
    /\ Len(rows) = 3
    /\ rows[1].type = "Directory" /\ rows[1].level = 0
    /\ rows[2].level = 1
    /\ rows[3].level = 0
    /\ rows[3].path = aTs
    /\ rows[1].path = builder \o <<"/">>

RECURSIVE Healthy(_)
\* the listing without the items for which statSync or readdirSync throws
Healthy(items) ==
    IF items = <<>> THEN <<>>
    ELSE (IF items[1].statErr \/ items[1].readErr THEN <<>>
          ELSE <<[items[1] EXCEPT !.items = Healthy(items[1].items)]>>)
         \o Healthy(Tail(items))

RECURSIVE WalkOf(_, _, _)
RECURSIVE WalkItems(_, _, _)
\* the rows of a directory in which nothing fails
WalkOf(d, segs, level) ==
    IF ~hasIncludedFiles(d).value THEN <<>> ELSE WalkItems(d.items, segs, level)

WalkItems(items, segs, level) ==
    IF items = <<>> THEN <<>>
    ELSE LET item == items[1]
             full == Append(segs, item.name)
         IN  (IF \/ shouldExclude(getRelativePath(full), excludeList)
                 \/ ~item.isDir /\ ~shouldIncludeFile(item.name)
                 \/ item.isDir /\ ~hasIncludedFiles(item).value
              THEN <<>>
              ELSE <<Row(level, item.isDir, item.name, getRelativePath(full))>>
                   \o (IF item.isDir THEN WalkOf(item, full, level + 1) ELSE <<>>))
             \o WalkItems(Tail(items), segs, level)

Failing == {it \in OnDisk : it.node.statErr \/ it.node.readErr}

\* C4: a failing readdirSync or statSync beneath the root costs the rows of
\* the failing item and nothing else: the other rows are those of the walk
\* of the same tree without the failing item, the items listed after it
\* included, with and without an extension filter.
C4_ErrorContained ==
    (Walked /\ ~disk.readErr)
    => SelectSeq(rows, LAMBDA r : \A it \in Failing : ~IsPrefix(it.segs, RowSegs(r)))
       = WalkOf([disk EXCEPT !.items = Healthy(disk.items)], <<>>, 0)

C8_ExclusionFileDefault ==
    /\ pc # "start"
       => /\ ExcludeFileName \in excludeList
          /\ (~excludeFile.exists \/ ~excludeFile.readable)
             => excludeList = {ExcludeFileName}
          /\ getExclusionListThrows(excludeFile)
             => /\ log # <<>> /\ log[1].msg = "Error reading exclusion file"
                /\ pc \in {"process", "done", "failed"}
    /\ \A k \in 1..Len(rows) : rows[k].path # ExcludeFileName

\* the exclusion file is listed first in the root and cannot be read; the
\* walk wrote rows and the report was written
C8_Witness ==
    /\ pc = "done"
    /\ excludeFile.exists /\ ~excludeFile.readable
    /\ disk.items[1].name = ExcludeFileName
    /\ Len(rows) > 1

\* root/{a.ts, b.js, sub/{c.md}} walked with the filter {"ts"} and no
\* exclusion file
ExampleWalked ==
    /\ Walked
    /\ disk.items = ExampleTree
    /\ ~excludeFile.exists
    /\ includedExtensions = ParseExtensions(<<"t", "s">>)

\* C10 as stated: the walk writes exactly two rows, a.ts at level 0 among
\* them and neither sub nor b.js.
C10_TwoEntries ==
    ExampleWalked
    => /\ Len(rows) = 2
       /\ \E k \in 1..Len(rows) : rows[k].path = aTs /\ rows[k].level = 0
       /\ \A k \in 1..Len(rows) : RowSegs(rows[k])[1] \notin {sub, bJs}

\* C10 as amended: the walk writes exactly one row, a.ts at level 0.
C10_OneEntry ==
    ExampleWalked
    => /\ Len(rows) = 1
       /\ rows[1].path = aTs /\ rows[1].level = 0 /\ rows[1].type = "File"

C10_Witness == ExampleWalked /\ pc = "done" /\ rowIndex = 3

\* the rows written for items beneath the given segments
RowsBeneath(segs) ==
    {k \in 1..Len(rows) : IsPrefix(segs, RowSegs(rows[k])) /\ RowSegs(rows[k]) # segs}

\* the files beneath a directory that pass the extension filter
IncludedFilesBeneath(it) ==
    {f \in OnDisk : /\ IsPrefix(it.segs, f.segs) /\ f.segs # it.segs
                    /\ ~f.node.isDir /\ shouldIncludeFile(f.node.name)}

\* C11: hasIncludedFiles does not consult the exclusion Set.  With an
\* extension filter (and no failing item), a directory that is not excluded
\* and whose files passing the filter are all excluded is still written as
\* a Directory row, with no File row beneath it.  With no filter,
\* hasIncludedFiles is true of every directory, and every directory that is
\* not excluded is written, an empty one included.
C11_FilterOnlyDirectoryCheck ==
    (Walked /\ NoError)
    => \A it \in {d \in OnDisk : d.node.isDir} :
          /\ (/\ ~includedExtensions.isNull
              /\ ~ExcludedOrBeneath(it.segs)
              /\ IncludedFilesBeneath(it) # {}
              /\ \A f \in IncludedFilesBeneath(it) : ExcludedOrBeneath(f.segs))
             => /\ Emitted(it)
                /\ \A k \in RowsBeneath(it.segs) : rows[k].type # "File"
          /\ includedExtensions.isNull
             => /\ hasIncludedFiles(it.node) = [threw |-> FALSE, value |-> TRUE]
                /\ ~ExcludedOrBeneath(it.segs) => Emitted(it)

\* with the filter {"ts"}, build/ is written for build/a.ts, which is
\* excluded: the Directory row has no row beneath it
C11_Witness ==
    /\ pc = "done" /\ NoError
    /\ ~includedExtensions.isNull
    /\ \E it \in OnDisk :
          /\ it.node.isDir /\ it.segs = <<build>>
          /\ it.node.items = <<File(aTs, FALSE)>>
          /\ ExcludedOrBeneath(<<build, aTs>>)
          /\ Emitted(it)
          /\ RowsBeneath(it.segs) = {}

====
